---- MODULE Spec2Model ----
(***************************************************************************)
(* A model of src/KQ.py: the Freqtrade control panel.                      *)
(*                                                                         *)
(*   SpecPairs  BacktestWindow.process_pairs, the pair normalizer          *)
(*   SpecLab    BacktestWindow and its DockerWorker threads                *)
(*   SpecCfg    FreqtradeManager's config edits (toggle_dry, save_port)    *)
(*   SpecMon    DockerMonitor, the status poller, and the power light      *)
(*                                                                         *)
(* Text is a sequence of one-character strings, so that strip(), split(),  *)
(* isdigit() and readline() are computed on characters as Python does.     *)
(***************************************************************************)
EXTENDS Naturals, Sequences, FiniteSets

VARIABLES
    \* --- BacktestWindow, pair normalizer (SpecPairs)
    line_pairs,     \* the text of the pairs line edit
    chk_futures,    \* the futures checkbox
    pairs_out,      \* what get_common_flags last computed: [done, raw, value]
    \* --- BacktestWindow and DockerWorker (SpecLab)
    btn_download,   \* the download button is enabled
    btn_backtest,   \* the backtest button is enabled
    txt_log,        \* the log view: a sequence of [w, text]
    workers,        \* the DockerWorker threads created so far, in order
    evq,            \* signals queued to the GUI thread, oldest first
    nRuns,          \* the DockerWorker threads started so far
    \* --- FreqtradeManager config edits (SpecCfg)
    cfgFile,        \* the content of config.json
    chk_dry,        \* the dry-run checkbox
    line_port,      \* the text of the port line edit
    dialogs,        \* the message boxes the last handler showed, in order
    lastOp,         \* the last handler run, its input and the file before it
    \* --- DockerMonitor (SpecMon)
    monPc,          \* where DockerMonitor.run stands
    monResult,      \* what the query of this round returned
    monRound,       \* the status_signal emissions of this round
    statusQ,        \* status_signal emissions queued to the GUI thread
    light_p         \* the power light is on

pairVars == <<line_pairs, chk_futures, pairs_out>>
labVars  == <<btn_download, btn_backtest, txt_log, workers, evq, nRuns>>
cfgVars  == <<cfgFile, chk_dry, line_port, dialogs, lastOp>>
monVars  == <<monPc, monResult, monRound, statusQ, light_p>>
vars     == <<pairVars, labVars, cfgVars, monVars>>

(***************************************************************************)
(* Text                                                                    *)
(***************************************************************************)
\* Python's str.isspace() on the characters of the model.
IsSpace(c) == c \in {" ", "\n"}

\* c in s
Contains(s, c) == \E i \in 1..Len(s) : s[i] = c

RECURSIVE LStrip(_)
LStrip(s) == IF s # <<>> /\ IsSpace(Head(s)) THEN LStrip(Tail(s)) ELSE s

RECURSIVE RStrip(_)
RStrip(s) ==
    IF s # <<>> /\ IsSpace(s[Len(s)]) THEN RStrip(SubSeq(s, 1, Len(s) - 1)) ELSE s

\* str.strip()
Strip(s) == RStrip(LStrip(s))

\* str.split(): the maximal runs of non-whitespace characters, in order.
RECURSIVE SplitFrom(_, _, _)
SplitFrom(s, cur, acc) ==
    IF s = <<>> THEN (IF cur = <<>> THEN acc ELSE Append(acc, cur))
    ELSE IF IsSpace(Head(s))
         THEN SplitFrom(Tail(s), <<>>, IF cur = <<>> THEN acc ELSE Append(acc, cur))
         ELSE SplitFrom(Tail(s), Append(cur, Head(s)), acc)

Split(s) == SplitFrom(s, <<>>, <<>>)

\* " ".join(list)
RECURSIVE Join(_)
Join(list) ==
    IF list = <<>> THEN <<>>
    ELSE IF Len(list) = 1 THEN list[1]
    ELSE list[1] \o <<" ">> \o Join(Tail(list))

\* All texts over the alphabet `chars` of at most n characters.
RECURSIVE TextsUpTo(_, _)
TextsUpTo(chars, n) ==
    IF n = 0 THEN {<<>>}
    ELSE LET shorter == TextsUpTo(chars, n - 1)
         IN  shorter \cup {Append(s, c) : s \in shorter, c \in chars}

(***************************************************************************)
(* BacktestWindow.process_pairs                                            *)
(***************************************************************************)
MaxPairsLen == 4

PairChars == {"B", "/", ":", " "}

QuoteSuffix  == <<"/", "U", "S", "D", "T">>
SettleSuffix == <<":", "U", "S", "D", "T">>

\* The body of the for loop for one token p.
NormalizeTokenAlwaysSettle(p, is_futures) ==
    LET p1 == IF ~Contains(p, "/") THEN p \o QuoteSuffix ELSE p
    IN  IF is_futures THEN p1 \o SettleSuffix ELSE p1

NormalizeToken(p, is_futures) ==
    LET p1 == IF ~Contains(p, "/") THEN p \o QuoteSuffix ELSE p
    IN  IF is_futures /\ ~Contains(p1, ":") THEN p1 \o SettleSuffix ELSE p1

process_pairs(raw_pairs, is_futures) ==
    IF raw_pairs = <<>> THEN <<>>
    ELSE LET pairs_list == Split(raw_pairs)
             final_list == [i \in 1..Len(pairs_list) |->
                                NormalizeToken(pairs_list[i], is_futures)]
         IN  Join(final_list)

NoPairs == [done |-> FALSE, raw |-> <<>>, value |-> <<>>]

IdlePairs ==
    /\ line_pairs = <<>>
    /\ chk_futures = FALSE
    /\ pairs_out = NoPairs

\* get_common_flags, the pairs part: what it reads and what it passes on.
CommonFlagsPairs ==
    LET raw_pairs == Strip(line_pairs)
    IN  [done |-> TRUE, raw |-> raw_pairs,
         value |-> process_pairs(raw_pairs, chk_futures)]

get_common_flags ==
    /\ pairs_out' = CommonFlagsPairs
    /\ UNCHANGED <<line_pairs, chk_futures>>

(***************************************************************************)
(* DockerWorker and BacktestWindow                                         *)
(***************************************************************************)
MaxRuns   == 2      \* DockerWorker threads one window starts
MaxOutLen == 3      \* characters a child process writes

OutChars == {"a", " ", "\n"}

\* The texts of the worker's own log lines (lines 51, 72 and 74).
HeaderText == <<"#run">>
FooterText == <<"#end">>
ErrorText  == <<"#err">>
\* The line get_common_flags appends to the log (line 222); 0 is the window.
PairsNote  == [w |-> 0, text |-> <<"#pairs">>]

\* DockerWorker(cmd), not yet started.
NewWorker(id, cmd) ==
    [id |-> id, cmd |-> cmd, pc |-> "start",
     open |-> FALSE, exited |-> FALSE,  \* the child's stdout pipe, its exit
     written |-> <<>>,                  \* all the child wrote so far
     pipe |-> <<>>,                     \* written and not yet read
     emitted |-> <<>>]                  \* the signals run() emitted, in order

Live == {i \in 1..Len(workers) : workers[i].pc # "done"}

\* Signal.emit from the worker thread: the receiver lives in the GUI thread,
\* so the call is queued to it (lines 244-245).
Emit(i, sig, part, text, pc) ==
    LET e == [w |-> workers[i].id, sig |-> sig, part |-> part, text |-> text]
    IN  /\ workers' = [workers EXCEPT ![i].emitted = Append(@, e), ![i].pc = pc]
        /\ evq' = Append(evq, e)

\* Line 51.
WorkerBegin(i) ==
    /\ workers[i].pc = "start"
    /\ Emit(i, "log", "header", HeaderText, "popen")
    /\ UNCHANGED <<btn_download, btn_backtest, txt_log, nRuns>>

\* Lines 53-63: the child is spawned, or Popen raises.
WorkerPopen(i) ==
    /\ workers[i].pc = "popen"
    /\ \/ workers' = [workers EXCEPT ![i].pc = "read", ![i].open = TRUE]
       \/ workers' = [workers EXCEPT ![i].pc = "except"]
    /\ UNCHANGED <<btn_download, btn_backtest, txt_log, evq, nRuns>>

\* The child writes a character to its stdout or stderr.
ChildWrite(i) ==
    /\ workers[i].open
    /\ Len(workers[i].written) < MaxOutLen
    /\ \E c \in OutChars :
          workers' = [workers EXCEPT ![i].written = Append(@, c),
                                     ![i].pipe = Append(@, c)]
    /\ UNCHANGED <<btn_download, btn_backtest, txt_log, evq, nRuns>>

\* The child closes its output and goes on running.
ChildClose(i) ==
    /\ workers[i].open
    /\ workers' = [workers EXCEPT ![i].open = FALSE]
    /\ UNCHANGED <<btn_download, btn_backtest, txt_log, evq, nRuns>>

\* The child exits, with any exit code; its output is closed with it.
ChildExit(i) ==
    /\ workers[i].pc = "read"
    /\ ~workers[i].exited
    /\ workers' = [workers EXCEPT ![i].open = FALSE, ![i].exited = TRUE]
    /\ UNCHANGED <<btn_download, btn_backtest, txt_log, evq, nRuns>>

\* The index of the first "\n" of s, 0 when there is none.
RECURSIVE NewlineAt(_, _)
NewlineAt(s, k) ==
    IF k > Len(s) THEN 0 ELSE IF s[k] = "\n" THEN k ELSE NewlineAt(s, k + 1)

\* What readline() returns from pipe content s: through the first newline,
\* or at end of file all that is left.
ReadLineOf(s) ==
    LET n == NewlineAt(s, 1) IN IF n > 0 THEN SubSeq(s, 1, n) ELSE s

\* readline() returns: a whole line is there, or the pipe is at end of file.
CanReadLine(i) == NewlineAt(workers[i].pipe, 1) > 0 \/ ~workers[i].open

\* Lines 65-70, one turn of the loop.
LoopTurnBreakOnExit(i) ==
    LET line == ReadLineOf(workers[i].pipe)
        rest == SubSeq(workers[i].pipe, Len(line) + 1, Len(workers[i].pipe))
    IN  IF workers[i].exited
        THEN /\ workers' = [workers EXCEPT ![i].pc = "end"]
             /\ UNCHANGED evq
        ELSE IF line # <<>>
        THEN /\ workers' = [workers EXCEPT
                    ![i].pipe = rest,
                    ![i].emitted = Append(@, [w |-> workers[i].id, sig |-> "log",
                                              part |-> "line", text |-> Strip(line)])]
             /\ evq' = Append(evq, [w |-> workers[i].id, sig |-> "log",
                                    part |-> "line", text |-> Strip(line)])
        ELSE UNCHANGED <<workers, evq>>

LoopTurn(i) ==
    LET line == ReadLineOf(workers[i].pipe)
        rest == SubSeq(workers[i].pipe, Len(line) + 1, Len(workers[i].pipe))
    IN  IF line = <<>> /\ workers[i].exited
        THEN /\ workers' = [workers EXCEPT ![i].pc = "end"]
             /\ UNCHANGED evq
        ELSE IF line # <<>>
        THEN /\ workers' = [workers EXCEPT
                    ![i].pipe = rest,
                    ![i].emitted = Append(@, [w |-> workers[i].id, sig |-> "log",
                                              part |-> "line", text |-> Strip(line)])]
             /\ evq' = Append(evq, [w |-> workers[i].id, sig |-> "log",
                                    part |-> "line", text |-> Strip(line)])
        ELSE UNCHANGED <<workers, evq>>

WorkerReadLine(i) ==
    /\ workers[i].pc = "read"
    /\ CanReadLine(i)
    /\ LoopTurn(i)
    /\ UNCHANGED <<btn_download, btn_backtest, txt_log, nRuns>>

\* Line 72.
WorkerEnd(i) ==
    /\ workers[i].pc = "end"
    /\ Emit(i, "log", "footer", FooterText, "finally")
    /\ UNCHANGED <<btn_download, btn_backtest, txt_log, nRuns>>

\* Lines 73-74.
ExceptNoFinally(i) ==
    /\ workers[i].pc = "except"
    /\ Emit(i, "log", "error", ErrorText, "done")
    /\ UNCHANGED <<btn_download, btn_backtest, txt_log, nRuns>>

WorkerExcept(i) ==
    /\ workers[i].pc = "except"
    /\ Emit(i, "log", "error", ErrorText, "finally")
    /\ UNCHANGED <<btn_download, btn_backtest, txt_log, nRuns>>

\* Lines 75-76; run() returns.
WorkerFinally(i) ==
    /\ workers[i].pc = "finally"
    /\ Emit(i, "finish", "finish", <<>>, "done")
    /\ UNCHANGED <<btn_download, btn_backtest, txt_log, nRuns>>

\* start_worker: the window's worker field is replaced and the thread started;
\* a thread that has returned from run() is gone, one that has not runs on.
StartWorkerOneButton(cmd) ==
    /\ btn_download' = FALSE
    /\ UNCHANGED btn_backtest
    /\ workers' = Append(SelectSeq(workers, LAMBDA t : t.pc # "done"),
                         NewWorker(nRuns + 1, cmd))
    /\ nRuns' = nRuns + 1

start_worker(cmd) ==
    /\ btn_download' = FALSE
    /\ btn_backtest' = FALSE
    /\ workers' = Append(SelectSeq(workers, LAMBDA t : t.pc # "done"),
                         NewWorker(nRuns + 1, cmd))
    /\ nRuns' = nRuns + 1

\* run_download and run_backtest up to start_worker: the log is cleared, the
\* flags are built (get_common_flags notes the pairs it found) and the
\* command is put together.
RunCommand(verb) ==
    /\ get_common_flags
    /\ txt_log' = IF CommonFlagsPairs.value # <<>> THEN <<PairsNote>> ELSE <<>>
    /\ start_worker([verb |-> verb, pairs |-> CommonFlagsPairs.value])
    /\ UNCHANGED evq

\* A click on the download button; a disabled button emits no clicked signal.
run_download ==
    /\ btn_download
    /\ nRuns < MaxRuns
    /\ RunCommand("download-data")

\* A click on the backtest button.
run_backtest ==
    /\ btn_backtest
    /\ nRuns < MaxRuns
    /\ RunCommand("backtesting")

append_log(e) ==
    /\ txt_log' = Append(txt_log, [w |-> e.w, text |-> e.text])
    /\ UNCHANGED <<btn_download, btn_backtest>>

on_finished ==
    /\ btn_download' = TRUE
    /\ btn_backtest' = TRUE
    /\ UNCHANGED txt_log

\* The GUI thread's event loop runs the slot of the oldest queued signal.
GuiDeliver ==
    /\ evq # <<>>
    /\ evq' = Tail(evq)
    /\ IF Head(evq).sig = "log" THEN append_log(Head(evq)) ELSE on_finished
    /\ UNCHANGED <<workers, nRuns, pairVars>>

IdleLab ==
    /\ btn_download = TRUE
    /\ btn_backtest = TRUE
    /\ txt_log = <<>>
    /\ workers = <<>>
    /\ evq = <<>>
    /\ nRuns = 0

LabPairTexts == {<<>>, <<"B">>, <<"B", "/", "U", " ">>}

\* What the lab window's threads leave alone.
notLab == <<cfgVars, monVars>>

NextLab ==
    \/ run_download /\ UNCHANGED notLab
    \/ run_backtest /\ UNCHANGED notLab
    \/ GuiDeliver /\ UNCHANGED notLab
    \/ \E i \in 1..Len(workers) : WorkerBegin(i) /\ UNCHANGED <<pairVars, notLab>>
    \/ \E i \in 1..Len(workers) : WorkerPopen(i) /\ UNCHANGED <<pairVars, notLab>>
    \/ \E i \in 1..Len(workers) : WorkerReadLine(i) /\ UNCHANGED <<pairVars, notLab>>
    \/ \E i \in 1..Len(workers) : WorkerEnd(i) /\ UNCHANGED <<pairVars, notLab>>
    \/ \E i \in 1..Len(workers) : WorkerExcept(i) /\ UNCHANGED <<pairVars, notLab>>
    \/ \E i \in 1..Len(workers) : WorkerFinally(i) /\ UNCHANGED <<pairVars, notLab>>
    \/ \E i \in 1..Len(workers) : ChildWrite(i) /\ UNCHANGED <<pairVars, notLab>>
    \/ \E i \in 1..Len(workers) : ChildClose(i) /\ UNCHANGED <<pairVars, notLab>>
    \/ \E i \in 1..Len(workers) : ChildExit(i) /\ UNCHANGED <<pairVars, notLab>>

(***************************************************************************)
(* JSON: a document is an object, held as a function from the paths of its *)
(* members (a path is the sequence of keys from the root) to their values. *)
(* A value is the text of a scalar, or Obj for an object, whose members    *)
(* are the paths one key longer.                                           *)
(***************************************************************************)
Obj       == <<"{", "}">>
JsonTrue  == <<"t", "r", "u", "e">>
JsonFalse == <<"f", "a", "l", "s", "e">>
JsonNull  == <<"n", "u", "l", "l">>

\* Python's bool as json.dump writes it.
JsonBool(b) == IF b THEN JsonTrue ELSE JsonFalse

P_dry      == <<"dry_run">>
P_trades   == <<"max_open_trades">>
P_exchange == <<"exchange">>
P_name     == <<"exchange", "name">>
P_ccxt     == <<"exchange", "ccxt_config">>
P_rate     == <<"exchange", "ccxt_config", "enableRateLimit">>
P_proxies  == <<"exchange", "ccxt_config", "proxies">>
P_http     == <<"exchange", "ccxt_config", "proxies", "http">>
P_https    == <<"exchange", "ccxt_config", "proxies", "https">>
P_socks    == <<"exchange", "ccxt_config", "proxies", "socks">>

\* The members a document of the model can hold, in the order they are written.
DocOrder ==
    <<P_dry, P_trades, P_exchange, P_name, P_ccxt, P_rate, P_proxies,
      P_http, P_https, P_socks>>

\* q is p or lies below p.
Under(p, q) == Len(q) >= Len(p) /\ SubSeq(q, 1, Len(p)) = p

EmptyObject == [q \in {} |-> Obj]

\* d[...][key] = v for the member at path p: whatever was there, with all
\* below it, is replaced.
SetItem(d, p, v) ==
    [q \in {r \in DOMAIN d : ~Under(p, r)} \cup {p} |-> IF q = p THEN v ELSE d[q]]

\* json.load on the members of a document in the order the text holds them:
\* a key met again replaces the earlier member.
RECURSIVE LoadMembers(_, _)
LoadMembers(members, d) ==
    IF members = <<>> THEN d
    ELSE LoadMembers(Tail(members), SetItem(d, Head(members).path, Head(members).val))

json_load(members) == LoadMembers(members, EmptyObject)

\* json.dump: every member once.  (Python writes them in insertion order; the
\* model writes them in DocOrder.)
DumpTopLevelOnly(d) ==
    LET kept == SelectSeq(DocOrder, LAMBDA p : p \in DOMAIN d /\ Len(p) = 1)
    IN  [i \in 1..Len(kept) |-> [path |-> kept[i], val |-> d[kept[i]]]]

json_dump(d) ==
    LET kept == SelectSeq(DocOrder, LAMBDA p : p \in DOMAIN d)
    IN  [i \in 1..Len(kept) |-> [path |-> kept[i], val |-> d[kept[i]]]]

\* config.json: text json.load accepts, or text it raises on.
JsonFile(members) == [kind |-> "json", members |-> members]
CorruptFile       == [kind |-> "corrupt", members |-> <<>>]

(***************************************************************************)
(* FreqtradeManager: the config edits                                      *)
(***************************************************************************)
\* The texts the user types into the port field.
PortTexts ==
    {<<>>, <<" ">>, <<"x">>, <<"8">>, <<"8", "0">>, <<" ", "8">>, <<"8", "x">>}

\* str.isdigit(): not empty, and every character a digit.
IsDigit(s) == s # <<>> /\ \A i \in 1..Len(s) : s[i] \in {"0", "8"}

\* f"http://host.docker.internal:{port}" (line 445)
ProxyPrefix == <<"http", ":", "//host.docker.internal", ":">>
ProxyStr(port) == ProxyPrefix \o port

\* What goes wrong with the file during one handler: nothing; it cannot be
\* opened for reading; it cannot be opened for writing (it is left as it was);
\* the write fails after open() truncated it.
Faults == {"none", "read", "open", "dump"}

\* Lines 456-462.  [ok: the return value, file: config.json afterwards,
\* io: the file accesses made]
UpdateJsonOnlyKey(file, k, v, fault) ==
    IF file.kind # "json" \/ fault = "read"
    THEN [ok |-> FALSE, file |-> file, io |-> <<"read">>]
    ELSE LET d == SetItem(EmptyObject, <<k>>, v)
         IN  IF fault = "open"
             THEN [ok |-> FALSE, file |-> file, io |-> <<"read", "write">>]
             ELSE IF fault = "dump"
             THEN [ok |-> FALSE, file |-> CorruptFile, io |-> <<"read", "write">>]
             ELSE [ok |-> TRUE, file |-> JsonFile(json_dump(d)),
                   io |-> <<"read", "write">>]

update_json(file, k, v, fault) ==
    IF file.kind # "json" \/ fault = "read"
    THEN [ok |-> FALSE, file |-> file, io |-> <<"read">>]
    ELSE LET d == SetItem(json_load(file.members), <<k>>, v)
         IN  IF fault = "open"
             THEN [ok |-> FALSE, file |-> file, io |-> <<"read", "write">>]
             ELSE IF fault = "dump"
             THEN [ok |-> FALSE, file |-> CorruptFile, io |-> <<"read", "write">>]
             ELSE [ok |-> TRUE, file |-> JsonFile(json_dump(d)),
                   io |-> <<"read", "write">>]

\* The message boxes.
WarnLive     == [kind |-> "warning", msg |-> "live-risk"]
InfoSwitched(chk) ==
    [kind |-> "information", msg |-> IF chk THEN "switched-dry" ELSE "switched-live"]
InfoPortSaved == [kind |-> "information", msg |-> "port-saved"]
CriticalError == [kind |-> "critical", msg |-> "error"]

\* Lines 439-440: what toggle_dry does once it is past the warning.
\* [res: what update_json did, wrote: the value it was given, dialogs: the
\* boxes shown from the start of the slot, checked: the checkbox afterwards]
SaveDry(file, chk, fault, shown) ==
    [res |-> update_json(file, "dry_run", JsonBool(chk), fault),
     wrote |-> chk,
     dialogs |-> shown \o <<InfoSwitched(chk)>>,
     checked |-> chk]

\* Lines 431-440, the slot of chk_dry.toggled, with the answer the user gives
\* to the warning.  On No, setChecked(True) changes the checkbox, so toggled
\* fires again and toggle_dry(True) runs inside the first call.
ToggleDryIgnoreNo(file, chk, reply, fault) ==
    IF ~chk
    THEN SaveDry(file, FALSE, fault, <<WarnLive>>)
    ELSE SaveDry(file, TRUE, fault, <<>>)

toggle_dry(file, chk, reply, fault) ==
    IF ~chk
    THEN IF reply = "No"
         THEN SaveDry(file, TRUE, fault, <<WarnLive>>)
         ELSE SaveDry(file, FALSE, fault, <<WarnLive>>)
    ELSE SaveDry(file, TRUE, fault, <<>>)

\* Lines 448-450 on the loaded document.  [raised: a TypeError was raised
\* (a member on the way is no object), data: the document afterwards]
SetProxies(data, proxy_str) ==
    LET d1 == IF P_exchange \notin DOMAIN data
              THEN SetItem(data, P_exchange, Obj) ELSE data
    IN  IF d1[P_exchange] # Obj THEN [raised |-> TRUE, data |-> data]
        ELSE
        LET d2 == IF P_ccxt \notin DOMAIN d1
                  THEN SetItem(SetItem(d1, P_ccxt, Obj), P_rate, JsonTrue)
                  ELSE d1
        IN  IF d2[P_ccxt] # Obj THEN [raised |-> TRUE, data |-> data]
            ELSE [raised |-> FALSE,
                  data |-> SetItem(SetItem(SetItem(d2, P_proxies, Obj),
                                           P_http, proxy_str),
                                   P_https, proxy_str)]

\* Lines 442-454.  [file: config.json afterwards, dialogs: the boxes shown,
\* io: the file accesses made, ok: the write was completed]
SavePortRejectEmptyOnly(file, text, fault) ==
    LET port == Strip(text)
    IN  IF port = <<>>
        THEN [file |-> file, dialogs |-> <<>>, io |-> <<>>, ok |-> FALSE]
        ELSE IF file.kind # "json" \/ fault = "read"
        THEN [file |-> file, dialogs |-> <<CriticalError>>, io |-> <<"read">>,
              ok |-> FALSE]
        ELSE LET m == SetProxies(json_load(file.members), ProxyStr(port))
             IN  IF m.raised
                 THEN [file |-> file, dialogs |-> <<CriticalError>>,
                       io |-> <<"read">>, ok |-> FALSE]
                 ELSE IF fault = "open"
                 THEN [file |-> file, dialogs |-> <<CriticalError>>,
                       io |-> <<"read", "write">>, ok |-> FALSE]
                 ELSE IF fault = "dump"
                 THEN [file |-> CorruptFile, dialogs |-> <<CriticalError>>,
                       io |-> <<"read", "write">>, ok |-> FALSE]
                 ELSE [file |-> JsonFile(json_dump(m.data)),
                       dialogs |-> <<InfoPortSaved>>,
                       io |-> <<"read", "write">>, ok |-> TRUE]

save_port(file, text, fault) ==
    LET port == Strip(text)
    IN  IF ~IsDigit(port)
        THEN [file |-> file, dialogs |-> <<>>, io |-> <<>>, ok |-> FALSE]
        ELSE IF file.kind # "json" \/ fault = "read"
        THEN [file |-> file, dialogs |-> <<CriticalError>>, io |-> <<"read">>,
              ok |-> FALSE]
        ELSE LET m == SetProxies(json_load(file.members), ProxyStr(port))
             IN  IF m.raised
                 THEN [file |-> file, dialogs |-> <<CriticalError>>,
                       io |-> <<"read">>, ok |-> FALSE]
                 ELSE IF fault = "open"
                 THEN [file |-> file, dialogs |-> <<CriticalError>>,
                       io |-> <<"read", "write">>, ok |-> FALSE]
                 ELSE IF fault = "dump"
                 THEN [file |-> CorruptFile, dialogs |-> <<CriticalError>>,
                       io |-> <<"read", "write">>, ok |-> FALSE]
                 ELSE [file |-> JsonFile(json_dump(m.data)),
                       dialogs |-> <<InfoPortSaved>>,
                       io |-> <<"read", "write">>, ok |-> TRUE]

\* The part of text after its last ":" (str.split(":")[-1]).
RECURSIVE AfterLastColon(_)
AfterLastColon(s) ==
    IF ~Contains(s, ":") THEN s ELSE AfterLastColon(Tail(s))

\* str.replace("/", "")
RECURSIVE DropSlashes(_)
DropSlashes(s) ==
    IF s = <<>> THEN <<>>
    ELSE IF Head(s) = "/" THEN DropSlashes(Tail(s))
    ELSE <<Head(s)>> \o DropSlashes(Tail(s))

\* Lines 414-429, run once by __init__ on widgets as init_ui made them: the
\* checkbox unchecked, the port field empty.  [checked, port]
load_config(file) ==
    IF file.kind # "json" THEN [checked |-> FALSE, port |-> <<>>]
    ELSE
    LET data == json_load(file.members)
        is_dry == IF P_dry \in DOMAIN data THEN data[P_dry] = JsonTrue ELSE TRUE
        found == /\ P_exchange \in DOMAIN data => data[P_exchange] = Obj
                 /\ P_ccxt \in DOMAIN data => data[P_ccxt] = Obj
                 /\ P_proxies \in DOMAIN data => data[P_proxies] = Obj
                 /\ P_http \in DOMAIN data
        proxy == IF found THEN data[P_http] ELSE <<>>
    IN  [checked |-> is_dry,
         port |-> IF Contains(proxy, ":")
                  THEN DropSlashes(AfterLastColon(proxy)) ELSE <<>>]

\* What a handler leaves in lastOp.
Op(op, chk, reply, text, before, ok, wrote, io) ==
    [op |-> op, chk |-> chk, reply |-> reply, text |-> text,
     before |-> before, ok |-> ok, wrote |-> wrote, io |-> io]

NoOp(file) == Op("none", FALSE, "none", <<>>, file, FALSE, FALSE, <<>>)

\* The user clicks the dry-run checkbox: it changes and toggled(chk) is emitted.
UserToggleDry ==
    \E reply \in {"Yes", "No"}, fault \in Faults :
        \E chk \in {~chk_dry} : \E r \in {toggle_dry(cfgFile, chk, reply, fault)} :
            /\ cfgFile' = r.res.file
            /\ chk_dry' = r.checked
            /\ dialogs' = r.dialogs
            /\ lastOp' = Op("toggle_dry", chk, IF chk THEN "none" ELSE reply, <<>>,
                            cfgFile, r.res.ok, r.wrote, r.res.io)
            /\ UNCHANGED line_port

\* The user leaves the port field as it is or types into it, and clicks the
\* save button.
UserSavePort ==
    \E text \in PortTexts \cup {line_port}, fault \in Faults :
        \E r \in {save_port(cfgFile, text, fault)} :
            /\ line_port' = text
            /\ cfgFile' = r.file
            /\ dialogs' = r.dialogs
            /\ lastOp' = Op("save_port", FALSE, "none", text, cfgFile,
                            r.ok, FALSE, r.io)
            /\ UNCHANGED chk_dry

\* The config files the program may be started on.
Member(p, v) == <<[path |-> p, val |-> v]>>

DryShapes ==
    {<<>>, Member(P_dry, JsonTrue), Member(P_dry, JsonFalse),
     Member(P_dry, JsonTrue) \o Member(P_dry, JsonFalse)}

ProxiesShapes ==
    {<<>>, Member(P_proxies, JsonNull)}
    \cup {Member(P_proxies, Obj) \o http \o socks :
            http \in {<<>>, Member(P_http, ProxyStr(<<"8">>))},
            socks \in {<<>>, Member(P_socks, <<"s">>)}}

CcxtShapes ==
    {<<>>, Member(P_ccxt, JsonNull)}
    \cup {Member(P_ccxt, Obj) \o rate \o proxies :
            rate \in {<<>>, Member(P_rate, JsonFalse)},
            proxies \in ProxiesShapes}

ExchangeShapes ==
    {<<>>, Member(P_exchange, JsonNull)}
    \cup {Member(P_exchange, Obj) \o Member(P_name, <<"b">>) \o ccxt :
            ccxt \in CcxtShapes}

InitFiles ==
    {CorruptFile}
    \cup {JsonFile(dry \o trades \o exchange) :
            dry \in DryShapes,
            trades \in {<<>>, Member(P_trades, <<"3">>)},
            exchange \in ExchangeShapes}

\* After FreqtradeManager.__init__: check_env found the file, load_config ran.
InitCfgVars ==
    /\ cfgFile \in InitFiles
    /\ chk_dry = load_config(cfgFile).checked
    /\ line_port = load_config(cfgFile).port
    /\ dialogs = <<>>
    /\ lastOp = NoOp(cfgFile)

IdleCfg ==
    /\ cfgFile = CorruptFile
    /\ chk_dry = FALSE
    /\ line_port = <<>>
    /\ dialogs = <<>>
    /\ lastOp = NoOp(CorruptFile)

NextCfg ==
    \/ UserToggleDry /\ UNCHANGED <<pairVars, labVars, monVars>>
    \/ UserSavePort /\ UNCHANGED <<pairVars, labVars, monVars>>

(***************************************************************************)
(* DockerMonitor                                                           *)
(***************************************************************************)
MaxMonOut  == 2     \* characters of the query's output
MaxStatusQ == 2     \* status signals waiting for the GUI thread

MonChars == {"f", " ", "\n"}

NoResult == [raised |-> FALSE, stdout |-> <<>>]

\* Lines 270-274: subprocess.run returns the output of the query, or raises.
MonQuery ==
    /\ monPc = "query"
    /\ \/ \E out \in TextsUpTo(MonChars, MaxMonOut) :
             /\ monResult' = [raised |-> FALSE, stdout |-> out]
             /\ monPc' = "emit"
       \/ /\ monResult' = [raised |-> TRUE, stdout |-> <<>>]
          /\ monPc' = "except"
    /\ UNCHANGED <<monRound, statusQ, light_p>>

\* status_signal.emit from the monitor thread: queued to the GUI thread
\* (line 291).
EmitStatus(on) ==
    /\ Len(statusQ) < MaxStatusQ
    /\ statusQ' = Append(statusQ, on)
    /\ monRound' = Append(monRound, on)

\* Line 275.
MonEmit ==
    /\ monPc = "emit"
    /\ EmitStatus(Strip(monResult.stdout) # <<>>)
    /\ monPc' = "sleep"
    /\ UNCHANGED <<monResult, light_p>>

\* Line 276.
MonExceptSilent ==
    /\ monPc = "except"
    /\ monPc' = "sleep"
    /\ UNCHANGED <<monResult, monRound, statusQ, light_p>>

MonExcept ==
    /\ monPc = "except"
    /\ EmitStatus(FALSE)
    /\ monPc' = "sleep"
    /\ UNCHANGED <<monResult, light_p>>

\* Line 277, and back to the head of the loop.
MonSleep ==
    /\ monPc = "sleep"
    /\ monPc' = "query"
    /\ monRound' = <<>>
    /\ monResult' = NoResult
    /\ UNCHANGED <<statusQ, light_p>>

\* Lines 403-406: the GUI thread runs the slot of the oldest queued signal.
update_power_light ==
    /\ statusQ # <<>>
    /\ light_p' = Head(statusQ)
    /\ statusQ' = Tail(statusQ)
    /\ UNCHANGED <<monPc, monResult, monRound>>

MonStep == MonQuery \/ MonEmit \/ MonExcept \/ MonSleep

\* After DockerMonitor().start(): init_ui set the light off (line 310).
IdleMon ==
    /\ monPc = "query"
    /\ monResult = NoResult
    /\ monRound = <<>>
    /\ statusQ = <<>>
    /\ light_p = FALSE

NextMon ==
    \/ MonQuery /\ UNCHANGED <<pairVars, labVars, cfgVars>>
    \/ MonEmit /\ UNCHANGED <<pairVars, labVars, cfgVars>>
    \/ MonExcept /\ UNCHANGED <<pairVars, labVars, cfgVars>>
    \/ MonSleep /\ UNCHANGED <<pairVars, labVars, cfgVars>>
    \/ update_power_light /\ UNCHANGED <<pairVars, labVars, cfgVars>>

(***************************************************************************)
(* The specifications                                                      *)
(***************************************************************************)
InitPairs ==
    /\ line_pairs \in TextsUpTo(PairChars, MaxPairsLen)
    /\ chk_futures \in BOOLEAN
    /\ pairs_out = NoPairs
    /\ IdleLab /\ IdleCfg /\ IdleMon

NextPairs == get_common_flags /\ UNCHANGED <<labVars, cfgVars, monVars>>

SpecPairs == InitPairs /\ [][NextPairs]_vars

InitLab ==
    /\ line_pairs \in LabPairTexts
    /\ chk_futures \in BOOLEAN
    /\ pairs_out = NoPairs
    /\ IdleLab /\ IdleCfg /\ IdleMon

SpecLab == InitLab /\ [][NextLab]_vars

InitCfg == InitCfgVars /\ IdlePairs /\ IdleLab /\ IdleMon

SpecCfg == InitCfg /\ [][NextCfg]_vars

InitMon == IdleMon /\ IdlePairs /\ IdleLab /\ IdleCfg

\* The monitor thread and the GUI thread's event loop both keep running.
SpecMon ==
    /\ InitMon /\ [][NextMon]_vars
    /\ WF_monVars(MonStep) /\ WF_monVars(update_power_light)

(***************************************************************************)
(* The command runner (SpecLab)                                            *)
(***************************************************************************)
\* How many of the signals in `emitted` are of kind sig.
CountSig(emitted, sig) ==
    Cardinality({k \in 1..Len(emitted) : emitted[k].sig = sig})

\* The texts of the log signals among es, in order.
LogTexts(es) ==
    LET logs == SelectSeq(es, LAMBDA e : e.sig = "log")
    IN  [k \in 1..Len(logs) |-> logs[k].text]

\* C1: every run of DockerWorker.run emits finish_signal exactly once: none
\* while it runs, one when it has returned, whether the child ran and exited
\* or Popen raised.
C1_FinishedOnce ==
    \A i \in 1..Len(workers) :
        CountSig(workers[i].emitted, "finish")
            = IF workers[i].pc = "done" THEN 1 ELSE 0

\* A run whose Popen raised has returned, its finish signal emitted.
C1_Witness ==
    \E i \in 1..Len(workers) :
        /\ workers[i].pc = "done"
        /\ \E k \in 1..Len(workers[i].emitted) : workers[i].emitted[k].part = "error"
        /\ CountSig(workers[i].emitted, "finish") = 1

\* C2: in one lab window at most one runner is in flight, whatever the clicks
\* and the order of the notifications: while a runner runs or one of its
\* signals is still to be delivered both buttons are disabled, and every line
\* in the log view or on its way to it comes from that one runner.
C2_OneRunner ==
    /\ Cardinality(Live) <= 1
    /\ (Live # {} \/ evq # <<>>) => ~btn_download /\ ~btn_backtest
    /\ \A k \in 1..Len(txt_log) : txt_log[k].w \in {0, nRuns}
    /\ \A k \in 1..Len(evq) : evq[k].w = nRuns

\* A second runner is in flight after the first has finished, its output in
\* the log view and both buttons disabled.
C2_Witness ==
    /\ nRuns = 2
    /\ Live # {}
    /\ ~btn_download /\ ~btn_backtest
    /\ \E k \in 1..Len(txt_log) : txt_log[k].w = 2

\* The lines of text s, each with its "\n"; the last may lack one.
RECURSIVE SplitLines(_, _)
SplitLines(s, cur) ==
    IF s = <<>> THEN (IF cur = <<>> THEN <<>> ELSE <<cur>>)
    ELSE IF Head(s) = "\n"
         THEN <<Append(cur, "\n")>> \o SplitLines(Tail(s), <<>>)
         ELSE SplitLines(Tail(s), Append(cur, Head(s)))

\* What worker t has read of its child's output.
Consumed(t) == SubSeq(t.written, 1, Len(t.written) - Len(t.pipe))

\* The child's lines emitted by worker t, in order.
EmittedLines(t) ==
    LET ls == SelectSeq(t.emitted, LAMBDA e : e.part = "line")
    IN  [k \in 1..Len(ls) |-> ls[k].text]

\* C3: the runner emits the lines of the child's output (stripped of
\* surrounding whitespace) one signal per line, in the order written, none
\* dropped and none twice; when the loop is left all the child wrote has been
\* read; the finish signal is the last signal of the run, and the listener
\* receives the log lines in the order emitted.
C3_LinesInOrder ==
    \A i \in 1..Len(workers) :
        LET t == workers[i]
            lines == SplitLines(Consumed(t), <<>>)
        IN  /\ EmittedLines(t) = [k \in 1..Len(lines) |-> Strip(lines[k])]
            /\ t.pc \in {"end", "finally", "done"} /\ t.exited => t.pipe = <<>>
            /\ \A k \in 1..Len(t.emitted) :
                  /\ t.emitted[k].sig = "finish" => k = Len(t.emitted)
                  /\ t.emitted[k].part \in {"footer", "error"} =>
                        k = Len(t.emitted) - (IF t.pc = "done" THEN 1 ELSE 0)
            /\ t.id = nRuns =>
                  LET shown == SelectSeq(txt_log, LAMBDA e : e.w = t.id)
                  IN  [k \in 1..Len(shown) |-> shown[k].text] \o LogTexts(evq)
                          = LogTexts(t.emitted)

\* A run has ended whose child wrote three characters in more than one line,
\* and the log view has received all of it.
C3_Witness ==
    \E i \in 1..Len(workers) :
        /\ workers[i].pc = "done"
        /\ Len(workers[i].written) = 3
        /\ Len(EmittedLines(workers[i])) >= 2
        /\ workers[i].emitted[Len(workers[i].emitted) - 1].part = "footer"
        /\ evq = <<>>

(***************************************************************************)
(* The pair normalizer (SpecPairs)                                         *)
(***************************************************************************)
\* The token as the normalizer is to rewrite it.
ExpectedPair(tok, futures) ==
    tok \o (IF Contains(tok, "/") THEN <<>> ELSE QuoteSuffix)
        \o (IF futures /\ ~Contains(tok, ":") THEN SettleSuffix ELSE <<>>)

\* C4: process_pairs returns the tokens of its input in the same order and
\* number, each with "/USDT" appended iff it holds no "/", then ":USDT"
\* appended iff futures is on and it holds no ":"; empty input gives empty
\* output.
C4_Normalized ==
    pairs_out.done =>
        LET toks == Split(pairs_out.raw)
            outs == Split(pairs_out.value)
        IN  /\ Len(outs) = Len(toks)
            /\ \A k \in 1..Len(toks) : outs[k] = ExpectedPair(toks[k], chk_futures)
            /\ pairs_out.value = Join(outs)
            /\ pairs_out.raw = <<>> => pairs_out.value = <<>>

\* Two tokens were normalized in futures mode: the first with neither
\* separator nor suffix, the second with a ":" already.
C4_Witness ==
    /\ pairs_out.done
    /\ chk_futures
    /\ Len(Split(pairs_out.raw)) = 2
    /\ ~Contains(Split(pairs_out.raw)[1], "/")
    /\ ~Contains(Split(pairs_out.raw)[1], ":")
    /\ Contains(Split(pairs_out.raw)[2], ":")

(***************************************************************************)
(* The config editor (SpecCfg)                                             *)
(***************************************************************************)
\* The document read back from config.json, and the one the last handler found.
After  == json_load(cfgFile.members)
Before == json_load(lastOp.before.members)

\* p is a member of both documents, with the same value.
Kept(p) == p \in DOMAIN Before /\ p \in DOMAIN After /\ After[p] = Before[p]

\* C5: once update_json has written dry_run to a valid config file, reading
\* the file back gives the value written, and every other member the file
\* held before, at any depth, is there with the value it had.
C5_RoundTrip ==
    lastOp.op = "toggle_dry" /\ lastOp.ok =>
        /\ cfgFile.kind = "json"
        /\ P_dry \in DOMAIN After
        /\ After[P_dry] = JsonBool(lastOp.wrote)
        /\ \A p \in DOMAIN Before : p # P_dry => Kept(p)

\* dry_run=False has been written over dry_run=True in a file that holds
\* other members, some of them nested.
C5_Witness ==
    /\ lastOp.op = "toggle_dry" /\ lastOp.ok /\ ~lastOp.wrote
    /\ lastOp.before.kind = "json"
    /\ {P_dry, P_trades, P_socks} \subseteq DOMAIN Before
    /\ Before[P_dry] = JsonTrue

\* The URL save_port builds from the text of the port field.
SavedUrl == ProxyStr(Strip(lastOp.text))

\* C6 as stated: a completed save_port sets proxies.http and proxies.https to
\* the URL of the port, creates the objects on the way if absent, and adds,
\* removes or changes no other member of the document.
C6_OnlyProxyUrls ==
    lastOp.op = "save_port" /\ lastOp.ok =>
        /\ cfgFile.kind = "json"
        /\ {P_http, P_https} \subseteq DOMAIN After
        /\ After[P_http] = SavedUrl /\ After[P_https] = SavedUrl
        /\ \A p \in DOMAIN Before \ {P_http, P_https} : Kept(p)
        /\ DOMAIN After \ DOMAIN Before
              \subseteq {P_exchange, P_ccxt, P_proxies, P_http, P_https}

\* C6 amended: a completed save_port makes exchange.ccxt_config.proxies the
\* object of exactly http and https, both the URL of the port; what proxies
\* held before is replaced whole; the objects on the way are created if
\* absent, ccxt_config with enableRateLimit true; every member outside
\* proxies that the file held is kept, and nothing else is added.
C6_ProxiesReplaced ==
    lastOp.op = "save_port" /\ lastOp.ok =>
        /\ cfgFile.kind = "json"
        /\ {p \in DOMAIN After : Under(P_proxies, p)} = {P_proxies, P_http, P_https}
        /\ After[P_proxies] = Obj
        /\ After[P_http] = SavedUrl /\ After[P_https] = SavedUrl
        /\ \A p \in DOMAIN Before : ~Under(P_proxies, p) => Kept(p)
        /\ \A p \in DOMAIN After \ DOMAIN Before :
              \/ p \in {P_exchange, P_ccxt, P_proxies, P_http, P_https}
                    /\ (Len(p) < 4 => After[p] = Obj)
              \/ p = P_rate /\ P_ccxt \notin DOMAIN Before /\ After[p] = JsonTrue

\* A port has been saved into a file that had other members and no
\* ccxt_config: the objects on the way were created.
C6_Witness ==
    /\ lastOp.op = "save_port" /\ lastOp.ok
    /\ P_trades \in DOMAIN Before
    /\ P_name \in DOMAIN Before
    /\ P_ccxt \notin DOMAIN Before
    /\ P_rate \in DOMAIN After

\* The last handler went to the file and did not complete its edit.
EditFailed == lastOp.io # <<>> /\ ~lastOp.ok

\* C7: a config edit that fails on reading or writing the file, from the
\* dry-run toggle or from the port save, shows the user an error dialog.
C7_FailureShown ==
    lastOp.op \in {"toggle_dry", "save_port"} /\ EditFailed =>
        \E k \in 1..Len(dialogs) : dialogs[k] = CriticalError

DryIsFalse(file) ==
    /\ file.kind = "json"
    /\ P_dry \in DOMAIN json_load(file.members)
    /\ json_load(file.members)[P_dry] = JsonFalse

\* C10: the file's dry_run becomes false only in a toggle whose warning the
\* user answered with Yes; after a No the checkbox is checked again, the
\* toggle has not made dry_run false, and no "switched to live" box was shown.
C10_LiveOnlyOnYes ==
    /\ DryIsFalse(cfgFile) /\ ~DryIsFalse(lastOp.before) =>
          lastOp.op = "toggle_dry" /\ ~lastOp.chk /\ lastOp.reply = "Yes"
    /\ lastOp.op = "toggle_dry" /\ lastOp.reply = "No" =>
          /\ chk_dry
          /\ lastOp.wrote
          /\ DryIsFalse(cfgFile) => DryIsFalse(lastOp.before)
          /\ \A k \in 1..Len(dialogs) : dialogs[k] # InfoSwitched(FALSE)

\* The user unchecked the box over a file with dry_run true and answered No.
C10_Witness ==
    /\ lastOp.op = "toggle_dry" /\ lastOp.reply = "No"
    /\ lastOp.before.kind = "json"
    /\ P_dry \in DOMAIN Before /\ Before[P_dry] = JsonTrue
    /\ chk_dry
    /\ cfgFile.kind = "json" /\ After[P_dry] = JsonTrue

(***************************************************************************)
(* The status poller (SpecMon)                                             *)
(***************************************************************************)
\* The query of this round reported at least one running service.
ReportedRunning == ~monResult.raised /\ Split(monResult.stdout) # <<>>

\* In every round one boolean is emitted, the right one.
RoundOk ==
    /\ monPc \in {"query", "emit", "except", "sleep"}
    /\ monRound = IF monPc = "sleep" THEN <<ReportedRunning>> ELSE <<>>

\* C9: DockerMonitor.run never leaves its loop; each round emits exactly one
\* boolean, true iff the query reported a running service and false when the
\* query raised; rounds keep ending and the listener keeps being notified.
C9_PollsForever ==
    /\ []RoundOk
    /\ []<>(monPc = "sleep")
    /\ []<><<update_power_light>>_statusQ

\* A round whose query raised has emitted False, after an earlier round
\* turned the light on.
C9_Witness ==
    /\ monPc = "sleep"
    /\ monResult.raised
    /\ monRound = <<FALSE>>
    /\ light_p

====
